---- MODULE Spec2Model ----
(***************************************************************************)
(* MSH (src/msh.c, the second translation unit of the file, lines 306-752):*)
(* the read-eval loop msh_loop, the tokenizer msh_split_line, the          *)
(* dispatcher msh_execute, the launchers msh_launch and msh_pipe, and the  *)
(* processes they fork.                                                    *)
(*                                                                         *)
(* A line buffer is a sequence of one-character strings ended by NUL; a    *)
(* C pointer into it is an index (0 is the NULL pointer).  Every process   *)
(* owns a copy of the interpreter's memory (fork copies it), a descriptor  *)
(* table and an entry in the kernel's process table.                       *)
(*                                                                         *)
(* Spec is the shell with its children.  SplitSpec runs msh_split_line     *)
(* step by step on texts of its own, CdSpec runs cd, PipeArgsSpec runs     *)
(* msh_pipe up to pipe() on segments with several "|", and PipeLiveSpec is *)
(* the shell with fair scheduling and programs that run to their end.      *)
(***************************************************************************)
EXTENDS Integers, Sequences, FiniteSets, TLC

VARIABLES proc, mem, fdt, obs, unread, env

vars == <<proc, mem, fdt, obs, unread, env>>

(* ------------------------------ bounds --------------------------------- *)

\* Child process slots besides the interpreter (pid 0): fork fails with
\* EAGAIN when none is free.
MaxProcs == 2

\* Lines that msh_read_line can deliver, all processes together, before
\* standard input is at its end.
MaxInput == 1

\* Largest number of '&'-separated pieces in an input line.
MaxSegs == 2

\* Longest of the short texts msh_split_line is applied to on its own.
MaxSplitLen == 4

\* Most tokens in a segment msh_pipe is applied to on its own.
MaxPipeLen == 4

(* ----------------------------- characters ------------------------------ *)

NUL == "NUL"

\* MSH_TOK_DELIM " \t\r\n\a"
MSH_TOK_DELIM == {" ", "TAB", "CR", "LF", "BEL"}

SegDelim == {"&"}

\* builtin_str[]
builtin_str == << <<"c","d">>, <<"h","e","l","p">>, <<"e","x","i","t">>, <<"p","w","d">> >>

msh_num_builtins == Len(builtin_str)

(* ------------------------- C string primitives ------------------------- *)

\* Index of the first NUL at or after i.
StrEnd(b, i) == CHOOSE j \in i..Len(b) : b[j] = NUL /\ \A k \in i..(j-1) : b[k] # NUL

\* The C string that starts at index i.
CStr(b, i) == SubSeq(b, i, StrEnd(b, i) - 1)

\* s + strspn(s, delim)
SkipDelims(b, i, D) == CHOOSE j \in i..StrEnd(b, i) :
                          b[j] \notin D /\ \A k \in i..(j-1) : b[k] \in D

\* s + strcspn(s, delim)
FindDelim(b, i, D) == CHOOSE j \in i..StrEnd(b, i) :
                         (b[j] \in D \/ b[j] = NUL) /\ \A k \in i..(j-1) : b[k] \notin D /\ b[k] # NUL

\* strchr(s, c) != NULL
strchr(b, i, c) == \E k \in i..(StrEnd(b, i) - 1) : b[k] = c

\* strtok_r(s, delim, &save): the token's index (0 when there is none), the
\* new save pointer and the buffer with the token's delimiter overwritten.
strtok_r(b, s, D) ==
    LET t == SkipDelims(b, s, D) IN
    IF b[t] = NUL THEN [token |-> 0, save |-> t, buf |-> b]
    ELSE LET e == FindDelim(b, t, D) IN
         IF b[e] = NUL THEN [token |-> t, save |-> e, buf |-> b]
         ELSE [token |-> t, save |-> e + 1, buf |-> [b EXCEPT ![e] = NUL]]

(* --------------------------- msh_split_line ---------------------------- *)

RECURSIVE SplitLoop(_, _, _)
\* The while loop of msh_split_line: strtok from index s on, collecting the
\* token pointers.
SplitLoop(b, s, tokens) ==
    LET r == strtok_r(b, s, MSH_TOK_DELIM) IN
    IF r.token = 0 THEN [tokens |-> tokens, buf |-> b]
    ELSE SplitLoop(r.buf, r.save, Append(tokens, r.token))

\* msh_split_line(line): the argument vector (the strings the token pointers
\* point at; the NULL sentinel is position Len+1) and the consumed buffer.
msh_split_line(b, s) ==
    LET r == SplitLoop(b, s, <<>>) IN
    [args |-> [k \in 1..Len(r.tokens) |-> CStr(r.buf, r.tokens[k])], buf |-> r.buf]

\* #define MSH_TOK_BUFSIZE 64
MSH_TOK_BUFSIZE == 64

\* msh_split_line that never reallocates tokens
Grow_Never(position, bufsize) == bufsize

\* if (position >= bufsize) { bufsize += MSH_TOK_BUFSIZE; tokens = realloc(...) }
Grow(position, bufsize) == IF position >= bufsize THEN bufsize + MSH_TOK_BUFSIZE ELSE bufsize

(* ------------------------------ inputs --------------------------------- *)

\* Segment texts: blank, the builtins exit and pwd, an external command,
\* and pipe segments (well formed, without a command after "|", without a
\* standalone "|" token, with a builtin as first token).
SegBlank == <<" ">>
SegExit == <<"e","x","i","t">>
SegPwd == <<"p","w","d">>
SegLs == <<"l","s">>
SegPipe == <<"l","s"," ","|"," ","w","c">>
SegPipeNoRhs == <<"l","s"," ","|">>
SegPipeGlued == <<"l","s","|","w","c">>
SegPwdPipe == <<"p","w","d"," ","|"," ","w","c">>

RECURSIVE JoinSegs(_)
\* The pieces joined by '&'.
JoinSegs(ss) == IF Len(ss) = 1 THEN ss[1] ELSE ss[1] \o <<"&">> \o JoinSegs(Tail(ss))

\* The lines standard input can deliver, as their '&'-separated pieces: the
\* empty line, every segment text alone, and lines of several segments.
LineShapes ==
    { << <<>> >>, <<SegBlank>>, <<SegExit>>, <<SegPwd>>, <<SegLs>>, <<SegPipe>>,
      <<SegPipeNoRhs>>, <<SegPipeGlued>>, <<SegPwdPipe>>,
      <<SegPwd, SegPipe>>, <<SegPipe, SegPwd>>, <<SegPipeGlued, SegExit>>,
      <<SegExit, SegLs>>, <<SegLs, SegBlank, SegLs>>, << <<>>, SegLs, <<>> >> }

Lines == { JoinSegs(ss) : ss \in { t \in LineShapes : Len(t) <= MaxSegs } }

(* ------------------------------- state --------------------------------- *)

Procs == 0..MaxProcs

\* The interpreter: the process main() was started in.
Shell == 0

Tty == <<"tty", 0>>
Closed == <<"closed", 0>>
ReadEnd(p) == <<"r", p>>
WriteEnd(p) == <<"w", p>>

\* int status; of msh_loop, before any assignment
Unassigned == -1

\* char xArgsV[1024] = {'\n'};
NoArgsV == <<"LF">>

\* The memory of a process: the locals of msh_loop, msh_launch and
\* msh_pipe.  junk is what the storage of status holds before status is
\* assigned.  tokens, bufsize and save (the pointer strtok keeps between
\* calls) are the locals of msh_split_line where it is run step by step.
\* lineBufs and argBufs count the live heap blocks of the process that
\* msh_read_line and msh_split_line returned.
BlankMem ==
    [buf |-> <<NUL>>, line |-> 0, token |-> 0, status |-> Unassigned, junk |-> 0, flag |-> 0,
     args |-> <<>>, inputArgs |-> <<>>, inputArgsV |-> NoArgsV,
     outputArgs |-> <<>>, outputArgsV |-> NoArgsV, pid |-> -1, pid1 |-> -1, pid2 |-> -1,
     tokens |-> <<>>, bufsize |-> 0, save |-> 0, lineBufs |-> 0, argBufs |-> 0]

\* No line read yet: no line holds a NUL.
NoLine == <<NUL>>

\* What is observed of a process in the line it is working on: the line as
\* read, the iterations of the while loop so far and, for the latest one,
\* the functions called, the processes forked, the system calls that
\* failed and whether args[] was read at its NULL sentinel.
BlankObs == [origLine |-> NoLine, segNo |-> 0, calls |-> {}, forks |-> <<>>,
             fails |-> {}, sentinel |-> FALSE]

FreeProc == [st |-> "free", pc |-> "none", parent |-> -1, role |-> "none", exit |-> "none"]

StdFds == [stdin |-> Tty, stdout |-> Tty, fd0 |-> Closed, fd1 |-> Closed]
NoFds == [stdin |-> Closed, stdout |-> Closed, fd0 |-> Closed, fd1 |-> Closed]

\* The directories of the file system, by path.
Dirs == { <<"/">>, <<"/","a">>, <<"/","b">>, <<"/","a","/","b">> }

\* What a process has besides memory and descriptors: its working
\* directory and what it has written to standard error.  No line of Lines
\* is a cd, so under Spec it stays as main() found it.
StartEnv == [cwd |-> <<"/">>, err |-> <<>>]

\* main(): the interpreter is about to enter msh_loop.
Init ==
    /\ proc = [p \in Procs |-> IF p = Shell
                 THEN [st |-> "code", pc |-> "prompt", parent |-> -1, role |-> "shell", exit |-> "none"]
                 ELSE FreeProc]
    /\ \E j \in {0, 1} : mem = [p \in Procs |-> IF p = Shell THEN [BlankMem EXCEPT !.junk = j]
                                                  ELSE BlankMem]
    /\ fdt = [p \in Procs |-> IF p = Shell THEN StdFds ELSE NoFds]
    /\ obs = [p \in Procs |-> BlankObs]
    /\ unread = MaxInput
    /\ env = [p \in Procs |-> StartEnv]

At(p, l) == proc[p].st = "code" /\ proc[p].pc = l

Children(p) == { c \in Procs : proc[c].st # "free" /\ proc[c].parent = p }

\* fork(): the pid the kernel hands out, when it has one.
HasFreePid == \E c \in Procs : proc[c].st = "free"
NewPid == CHOOSE c \in Procs : proc[c].st = "free" /\ \A d \in Procs : proc[d].st = "free" => c <= d

\* The process image after exit() or a fatal signal.
Exited(p, code) == [proc[p] EXCEPT !.st = "zombie", !.pc = "done", !.exit = code]

(* ------------------------------ msh_loop ------------------------------- *)

\* Reading status: its value, or what its storage held while unassigned.
ReadStatus(m) == IF m.status = Unassigned THEN m.junk ELSE m.status

\* printf("$ "); line = tempLine = msh_read_line();  with a line available
ReadLine(p) ==
    /\ At(p, "prompt")
    /\ unread > 0
    /\ unread' = unread - 1
    /\ \E l \in Lines :
         /\ mem' = [mem EXCEPT ![p].buf = l \o <<NUL>>, ![p].line = 1, ![p].token = 0,
                                ![p].lineBufs = @ + 1]
         /\ obs' = [obs EXCEPT ![p] = [BlankObs EXCEPT !.origLine = l]]
    /\ proc' = [proc EXCEPT ![p].pc = "while"]
    /\ UNCHANGED fdt

\* msh_read_line() that hands an empty line back at EOF instead of exiting
ReadEOF_ReturnsLine(p) ==
    /\ At(p, "prompt")
    /\ mem' = [mem EXCEPT ![p].buf = <<NUL>>, ![p].line = 1, ![p].token = 0]
    /\ obs' = [obs EXCEPT ![p] = [BlankObs EXCEPT !.origLine = <<>>]]
    /\ proc' = [proc EXCEPT ![p].pc = "while"]
    /\ UNCHANGED fdt

\* msh_read_line(): c == EOF, exit(EXIT_SUCCESS), wherever in the line
\* getchar() meets it; the characters read before it go with the process.
ReadEOF(p) ==
    /\ At(p, "prompt")
    /\ proc' = [proc EXCEPT ![p] = Exited(p, "EXIT_SUCCESS")]
    /\ mem' = [mem EXCEPT ![p] = BlankMem]
    /\ obs' = [obs EXCEPT ![p] = BlankObs]
    /\ fdt' = [fdt EXCEPT ![p] = NoFds]

\* token = strtok_r(line, "&", &line): the memory of msh_loop after it.
NextToken(m) ==
    LET r == strtok_r(m.buf, m.line, SegDelim) IN
    [m EXCEPT !.buf = r.buf, !.line = r.save, !.token = r.token]

\* while ((token = strtok_r(line, "&", &line)) && status) is true: there is
\* a token and the status read is not 0.
LoopEnters(p) ==
    /\ At(p, "while")
    /\ NextToken(mem[p]).token # 0
    /\ ReadStatus(mem[p]) # 0

\* What is recorded of one iteration of the while loop: the functions it
\* called and the processes it forked.
Iteration(o, calls, fails) ==
    [o EXCEPT !.segNo = @ + 1, !.calls = calls, !.forks = <<>>, !.fails = fails]

\* The while condition is false (no token, or a token and status read as
\* 0), then } while (status); goes back to the prompt or ends msh_loop, and
\* main returns EXIT_SUCCESS.
LoopExit(p) ==
    /\ At(p, "while")
    /\ \/ NextToken(mem[p]).token = 0
       \/ ReadStatus(mem[p]) = 0
    /\ IF ReadStatus(mem[p]) # 0
       THEN /\ proc' = [proc EXCEPT ![p].pc = "prompt"]
            /\ mem' = [mem EXCEPT ![p] = [BlankMem EXCEPT !.status = mem[p].status,
                                                          !.junk = mem[p].junk,
                                                          !.lineBufs = mem[p].lineBufs,
                                                          !.argBufs = mem[p].argBufs]]
            /\ UNCHANGED <<fdt, obs>>
       ELSE /\ proc' = [proc EXCEPT ![p] = Exited(p, "EXIT_SUCCESS")]
            /\ mem' = [mem EXCEPT ![p] = BlankMem]
            /\ fdt' = [fdt EXCEPT ![p] = NoFds]
            /\ UNCHANGED obs

\* if (strchr(tempLine, '|')) { token = tempLine; flag = 1; }
\* tempLine is the start of the line buffer.
PipeFlag(m) == IF strchr(m.buf, 1, "|") THEN 1 ELSE 0

\* The text handed to msh_split_line.
Operand(m) == IF PipeFlag(m) = 1 THEN 1 ELSE m.token

\* args = msh_split_line(token) in the iteration that starts from memory m0:
\* the argument vector and the memory after it.
Tokenized(m0) ==
    LET m == NextToken(m0)
        sp == msh_split_line(m.buf, Operand(m)) IN
    [m EXCEPT !.buf = sp.buf, !.flag = PipeFlag(m), !.args = sp.args, !.token = Operand(m),
              !.argBufs = @ + 1]

\* free(args);  at the end of the iteration (the vector's strings, which
\* lie in the line buffer, stay readable)
FreeArgs(m) == [m EXCEPT !.argBufs = @ - 1]

(* ----------------------------- msh_execute ----------------------------- *)

\* msh_execute without its loop over builtin_str
BuiltinIndex_None(args) == 0

\* The index of args[0] in builtin_str, 0 when it is not there.
BuiltinIndex(args) ==
    IF args # <<>> /\ \E i \in 1..msh_num_builtins : args[1] = builtin_str[i]
    THEN CHOOSE i \in 1..msh_num_builtins : args[1] = builtin_str[i]
    ELSE 0

builtin_name == <<"msh_cd", "msh_help", "msh_exit", "msh_pwd">>

\* (*builtin_func[i])(args): msh_exit returns 0, the others 1.
builtin_func(i) == IF builtin_name[i] = "msh_exit" THEN 0 ELSE 1

\* msh_execute on an empty vector or a builtin: no process is involved.
ExecuteBuiltin(p) ==
    /\ LoopEnters(p)
    /\ LET m == Tokenized(mem[p])
           i == BuiltinIndex(m.args) IN
       /\ m.flag = 0
       /\ m.args = <<>> \/ i # 0
       /\ mem' = [mem EXCEPT ![p] =
                    FreeArgs([m EXCEPT !.status = IF m.args = <<>> THEN 1 ELSE builtin_func(i)])]
       /\ obs' = [obs EXCEPT ![p] = Iteration(@,
                    IF m.args = <<>> THEN {"msh_execute"} ELSE {"msh_execute", builtin_name[i]},
                    {})]
    /\ UNCHANGED <<proc, fdt>>

(* ------------------------------ msh_launch ----------------------------- *)

\* A process created by fork(): a copy of its parent, about to run from l.
Forked(p, l, r) == [st |-> "code", pc |-> l, parent |-> p, role |-> r, exit |-> "none"]

\* The image of a process after a successful exec: the msh code and memory
\* are gone, the descriptors (t) stay.
Execed(c, t) ==
    /\ proc' = [proc EXCEPT ![c].st = "prog", ![c].pc = "main"]
    /\ mem' = [mem EXCEPT ![c] = BlankMem]
    /\ obs' = [obs EXCEPT ![c] = BlankObs]
    /\ fdt' = [fdt EXCEPT ![c] = t]

\* msh_execute -> msh_launch: pid = fork() gives a child
LaunchFork(p) ==
    /\ LoopEnters(p)
    /\ HasFreePid
    /\ LET m == Tokenized(mem[p])
           c == NewPid
           o == Iteration(obs[p], {"msh_execute", "msh_launch"}, {}) IN
       /\ m.flag = 0
       /\ m.args # <<>> /\ BuiltinIndex(m.args) = 0
       /\ mem' = [mem EXCEPT ![p] = [m EXCEPT !.pid = c], ![c] = [m EXCEPT !.pid = 0]]
       /\ obs' = [obs EXCEPT ![p] = [o EXCEPT !.forks = <<"launched">>], ![c] = o]
       /\ proc' = [proc EXCEPT ![p].pc = "launch_wait", ![c] = Forked(p, "launch_child", "launched")]
       /\ fdt' = [fdt EXCEPT ![c] = fdt[p]]

\* msh_execute -> msh_launch: pid < 0, perror("msh"), return 1
LaunchForkFail(p) ==
    /\ LoopEnters(p)
    /\ LET m == Tokenized(mem[p]) IN
       /\ m.flag = 0
       /\ m.args # <<>> /\ BuiltinIndex(m.args) = 0
       /\ mem' = [mem EXCEPT ![p] = FreeArgs([m EXCEPT !.status = 1])]
       /\ obs' = [obs EXCEPT ![p] = Iteration(@, {"msh_execute", "msh_launch"}, {"fork"})]
    /\ UNCHANGED <<proc, fdt>>

\* child of msh_launch: execvp(args[0], args) replaces the image
LaunchExec(c) ==
    /\ At(c, "launch_child")
    /\ Execed(c, fdt[c])

\* child of msh_launch: execvp returns -1, perror, exit(EXIT_FAILURE)
LaunchExecFail(c) ==
    /\ At(c, "launch_child")
    /\ proc' = [proc EXCEPT ![c] = Exited(c, "EXIT_FAILURE")]
    /\ mem' = [mem EXCEPT ![c] = BlankMem]
    /\ obs' = [obs EXCEPT ![c] = BlankObs]
    /\ fdt' = [fdt EXCEPT ![c] = NoFds]

\* msh_launch without its do-while: it returns 1 after the first waitpid,
\* whether the child has terminated or has only stopped.
LaunchWait_NoLoop(p) ==
    /\ At(p, "launch_wait")
    /\ LET c == mem[p].pid IN
       /\ proc[c].st \in {"zombie", "stopped"}
       /\ proc' = [proc EXCEPT ![c] = IF @.st = "zombie" THEN FreeProc ELSE [@ EXCEPT !.st = "stopseen"],
                                ![p].pc = "while"]
       /\ mem' = [mem EXCEPT ![p] = FreeArgs([@ EXCEPT !.status = 1, !.pid = -1])]
    /\ UNCHANGED <<fdt, obs>>

\* What waitpid(pid, &status, WUNTRACED) of msh_launch returns for: the
\* child has terminated, or has stopped and was not yet reported.
LaunchWaitReturns(st) == st \in {"zombie", "stopped"}

\* do { waitpid(pid, &status, WUNTRACED); } while (!WIFEXITED && !WIFSIGNALED);
\* return 1
LaunchWait(p) ==
    /\ At(p, "launch_wait")
    /\ LET c == mem[p].pid IN
       /\ LaunchWaitReturns(proc[c].st)
       /\ IF proc[c].st = "zombie"
          THEN /\ proc' = [proc EXCEPT ![c] = FreeProc, ![p].pc = "while"]
               /\ mem' = [mem EXCEPT ![p] = FreeArgs([@ EXCEPT !.status = 1, !.pid = -1])]
          ELSE /\ proc' = [proc EXCEPT ![c].st = IF @ = "stopped" THEN "stopseen" ELSE @]
               /\ mem' = mem
    /\ UNCHANGED <<fdt, obs>>

(* ------------------------- external programs --------------------------- *)

Running(c) == proc[c].st \in {"prog", "stopped", "stopseen"}

\* The program exits, with any exit code.
ProgExit(c) ==
    /\ proc[c].st = "prog"
    /\ proc' = [proc EXCEPT ![c] = Exited(c, "exited")]
    /\ fdt' = [fdt EXCEPT ![c] = NoFds]
    /\ UNCHANGED <<mem, obs>>

\* The program is terminated by a signal.
ProgKilled(c) ==
    /\ Running(c)
    /\ proc' = [proc EXCEPT ![c] = Exited(c, "signal")]
    /\ fdt' = [fdt EXCEPT ![c] = NoFds]
    /\ UNCHANGED <<mem, obs>>

\* The program is stopped by a signal.
ProgStop(c) ==
    /\ proc[c].st = "prog"
    /\ proc' = [proc EXCEPT ![c].st = "stopped"]
    /\ UNCHANGED <<mem, fdt, obs>>

\* The stopped program is continued.
ProgCont(c) ==
    /\ proc[c].st \in {"stopped", "stopseen"}
    /\ proc' = [proc EXCEPT ![c].st = "prog"]
    /\ UNCHANGED <<mem, fdt, obs>>

(* ------------------------------- msh_pipe ------------------------------ *)

\* The NULL pointer that ends an argument vector.
NullArg == <<>>

\* What a read of indeterminate memory (past the vector) may give.
Indeterminate == <<"?">>

\* args[i], with C's indices from 0; args[Len] is the NULL sentinel.
Arg(args, i) == IF i < Len(args) THEN args[i + 1]
                ELSE IF i = Len(args) THEN NullArg ELSE Indeterminate

PipeToken == <<"|">>

\* strcpy / strcat(" ") strcat of one more argument onto a combined string
AddArg(v, a) == IF v = NoArgsV THEN a ELSE v \o <<" ">> \o a

RECURSIVE JoinUntilPipe(_, _, _)
\* for (i = 1; args[i] != NULL && strcmp(args[i], "|") != 0; i++)
JoinUntilPipe(args, i, v) ==
    IF Arg(args, i) = NullArg \/ Arg(args, i) = PipeToken THEN v
    ELSE JoinUntilPipe(args, i + 1, AddArg(v, Arg(args, i)))

RECURSIVE JoinToEnd(_, _, _)
\* for (i = pipeLoc + 1; args[i] != NULL; i++)
JoinToEnd(args, i, v) ==
    IF i >= Len(args) THEN v
    ELSE JoinToEnd(args, i + 1, AddArg(v, Arg(args, i)))

\* pipeLoc after the search loop (the last i >= 1 with args[i] "|", else -1)
\* and the pipeLoc++ that follows it.
pipeLoc(args) ==
    LET hits == { i \in 1..(Len(args) - 1) : Arg(args, i) = PipeToken } IN
    (IF hits = {} THEN -1 ELSE CHOOSE i \in hits : \A j \in hits : j <= i) + 1

\* strcpy(outputArgs, args[pipeLoc]) reads the NULL sentinel.
ReadsSentinel(args) == Arg(args, pipeLoc(args)) = NullArg

\* The four strings msh_pipe builds before it creates the pipe.
PipeStrings(args) ==
    [inputArgs |-> Arg(args, 0),
     inputArgsV |-> JoinUntilPipe(args, 1, NoArgsV),
     outputArgs |-> IF ReadsSentinel(args) THEN Indeterminate ELSE Arg(args, pipeLoc(args)),
     outputArgsV |-> JoinToEnd(args, pipeLoc(args) + 1, NoArgsV)]

\* consumer: execlp(outputArgs, outputArgs, NULL) when outputArgsV is still
\* "\n", else execlp(outputArgs, outputArgs, outputArgsV, NULL): its argv
ConsumerArgv(m) == IF m.outputArgsV = NoArgsV THEN <<m.outputArgs>>
                   ELSE <<m.outputArgs, m.outputArgsV>>

\* producer: execlp(inputArgs, inputArgs[, inputArgsV], NULL): its argv
ProducerArgv(m) == IF m.inputArgsV = NoArgsV THEN <<m.inputArgs>>
                   ELSE <<m.inputArgs, m.inputArgsV>>

\* What msh_pipe returns when pipe(fd) fails: perror("Pipe error\n"); return 0
PipeFailReturn == 0

\* The memory once msh_pipe has built its strings from m.args.
PipeMem(m) ==
    LET ps == PipeStrings(m.args) IN
    [m EXCEPT !.inputArgs = ps.inputArgs, !.inputArgsV = ps.inputArgsV,
              !.outputArgs = ps.outputArgs, !.outputArgsV = ps.outputArgsV]

\* The locals of msh_pipe are gone when it returns.
PipeReturn(m, ret) ==
    [m EXCEPT !.status = ret, !.inputArgs = <<>>, !.inputArgsV = NoArgsV,
              !.outputArgs = <<>>, !.outputArgsV = NoArgsV, !.pid1 = -1, !.pid2 = -1]

\* What is recorded of an iteration that calls msh_pipe.
PipeIteration(o, m, fails) ==
    [Iteration(o, {"msh_pipe"}, fails) EXCEPT !.sentinel = ReadsSentinel(m.args)]

\* msh_pipe up to pipe(fd), which succeeds
PipeBegin(p) ==
    /\ LoopEnters(p)
    /\ LET m == Tokenized(mem[p]) IN
       /\ m.flag = 1
       /\ mem' = [mem EXCEPT ![p] = PipeMem(m)]
       /\ obs' = [obs EXCEPT ![p] = PipeIteration(@, m, {})]
    /\ fdt' = [fdt EXCEPT ![p].fd0 = ReadEnd(p), ![p].fd1 = WriteEnd(p)]
    /\ proc' = [proc EXCEPT ![p].pc = "pipe_fork1"]

\* msh_pipe up to pipe(fd), which fails
PipeBeginFail(p) ==
    /\ LoopEnters(p)
    /\ LET m == Tokenized(mem[p]) IN
       /\ m.flag = 1
       /\ mem' = [mem EXCEPT ![p] = FreeArgs(PipeReturn(PipeMem(m), PipeFailReturn))]
       /\ obs' = [obs EXCEPT ![p] = PipeIteration(@, m, {"pipe"})]
    /\ UNCHANGED <<proc, fdt>>

\* strcpy(outputArgs, args[pipeLoc]) with args[pipeLoc] NULL: the process
\* may be killed by SIGSEGV there
PipeBeginCrash(p) ==
    /\ LoopEnters(p)
    /\ LET m == Tokenized(mem[p]) IN
       /\ m.flag = 1
       /\ ReadsSentinel(m.args)
       /\ obs' = [obs EXCEPT ![p] = PipeIteration(@, m, {})]
    /\ proc' = [proc EXCEPT ![p] = Exited(p, "signal")]
    /\ mem' = [mem EXCEPT ![p] = BlankMem]
    /\ fdt' = [fdt EXCEPT ![p] = NoFds]

\* pid1 = fork() gives the consumer
PipeFork1(p) ==
    /\ At(p, "pipe_fork1")
    /\ HasFreePid
    /\ LET c == NewPid IN
       /\ mem' = [mem EXCEPT ![p].pid1 = c, ![c] = [mem[p] EXCEPT !.pid1 = 0]]
       /\ obs' = [obs EXCEPT ![p].forks = Append(@, "consumer"), ![c] = [obs[p] EXCEPT !.forks = <<>>, !.fails = {}]]
       /\ proc' = [proc EXCEPT ![p].pc = "pipe_fork2", ![c] = Forked(p, "consumer", "consumer")]
       /\ fdt' = [fdt EXCEPT ![c] = fdt[p]]

\* pid1 = fork() fails (pid1 is -1, which is not 0: the else branch)
PipeFork1Fail(p) ==
    /\ At(p, "pipe_fork1")
    /\ mem' = [mem EXCEPT ![p].pid1 = -1]
    /\ proc' = [proc EXCEPT ![p].pc = "pipe_fork2"]
    /\ obs' = [obs EXCEPT ![p].fails = @ \cup {"fork"}]
    /\ UNCHANGED fdt

\* consumer without its close(fd[1])
ConsumerFds_KeepsWriteEnd(t) == [t EXCEPT !.stdin = t.fd0, !.fd0 = Closed]

\* consumer: close(fd[1]); dup2(fd[0], STDIN_FILENO); close(fd[0]);
ConsumerFds(t) == [t EXCEPT !.stdin = t.fd0, !.fd0 = Closed, !.fd1 = Closed]

\* producer: close(fd[0]); dup2(fd[1], STDOUT_FILENO); close(fd[1]);
ProducerFds(t) == [t EXCEPT !.stdout = t.fd1, !.fd0 = Closed, !.fd1 = Closed]

\* msh_pipe whose parent leaves the pipe open
ClosedFds_KeepsOpen(t) == t

\* close(fd[1]); close(fd[0]);  after the second fork
ClosedFds(t) == [t EXCEPT !.fd0 = Closed, !.fd1 = Closed]

\* pid2 = fork() gives the producer; the parent goes on to
\* close(fd[1]); close(fd[0]);
PipeFork2(p) ==
    /\ At(p, "pipe_fork2")
    /\ HasFreePid
    /\ LET c == NewPid IN
       /\ mem' = [mem EXCEPT ![p].pid2 = c, ![c] = [mem[p] EXCEPT !.pid2 = 0]]
       /\ obs' = [obs EXCEPT ![p].forks = Append(@, "producer"), ![c] = [obs[p] EXCEPT !.forks = <<>>, !.fails = {}]]
       /\ proc' = [proc EXCEPT ![p].pc = "pipe_wait1", ![c] = Forked(p, "producer", "producer")]
       /\ fdt' = [fdt EXCEPT ![p] = ClosedFds(fdt[p]), ![c] = fdt[p]]

\* pid2 = fork() fails; the parent goes on to close(fd[1]); close(fd[0]);
PipeFork2Fail(p) ==
    /\ At(p, "pipe_fork2")
    /\ mem' = [mem EXCEPT ![p].pid2 = -1]
    /\ proc' = [proc EXCEPT ![p].pc = "pipe_wait1"]
    /\ fdt' = [fdt EXCEPT ![p] = ClosedFds(fdt[p])]
    /\ obs' = [obs EXCEPT ![p].fails = @ \cup {"fork"}]

\* consumer: the descriptors are rewired and
\* execlp(outputArgs, outputArgs[, outputArgsV], NULL) replaces the image
ConsumerExec(c) ==
    /\ At(c, "consumer")
    /\ Execed(c, ConsumerFds(fdt[c]))

\* consumer: execlp fails and returns; nothing follows it inside
\* if (pid1 == 0), so control reaches return 1 and then msh_loop
ConsumerExecFail(c) ==
    /\ At(c, "consumer")
    /\ fdt' = [fdt EXCEPT ![c] = ConsumerFds(fdt[c])]
    /\ proc' = [proc EXCEPT ![c].pc = "while"]
    /\ mem' = [mem EXCEPT ![c] = FreeArgs(PipeReturn(mem[c], 1))]
    /\ UNCHANGED obs

\* producer: the descriptors are rewired and
\* execlp(inputArgs, inputArgs[, inputArgsV], NULL) replaces the image
ProducerExec(c) ==
    /\ At(c, "producer")
    /\ Execed(c, ProducerFds(fdt[c]))

\* producer: execlp fails and returns; control leaves if (pid2 == 0) and
\* goes on with close(fd[1]); close(fd[0]); and the two waitpid
ProducerExecFail(c) ==
    /\ At(c, "producer")
    /\ fdt' = [fdt EXCEPT ![c] = ClosedFds(ProducerFds(fdt[c]))]
    /\ proc' = [proc EXCEPT ![c].pc = "pipe_wait1"]
    /\ UNCHANGED <<mem, obs>>

\* The children waitpid(-1, NULL, 0) can return: the terminated ones.
Waitable(p) == { c \in Children(p) : proc[c].st = "zombie" }

\* msh_pipe with a single waitpid
AfterWait_Once(l) == "while"

\* Where msh_pipe goes after a waitpid: to the second one, or to return 1.
AfterWait(l) == IF l = "pipe_wait1" THEN "pipe_wait2" ELSE "while"

\* waitpid(-1, NULL, 0): with no child it fails at once (ECHILD), with a
\* terminated child it reaps it, otherwise it blocks.  After the second one
\* msh_pipe returns 1.
PipeWait(p) ==
    /\ At(p, "pipe_wait1") \/ At(p, "pipe_wait2")
    /\ \/ /\ Children(p) = {}
          /\ proc' = [proc EXCEPT ![p].pc = AfterWait(@)]
       \/ \E c \in Waitable(p) :
            proc' = [proc EXCEPT ![c] = FreeProc, ![p].pc = AfterWait(@)]
    /\ mem' = [mem EXCEPT ![p] = IF AfterWait(proc[p].pc) = "while"
                                  THEN FreeArgs(PipeReturn(mem[p], 1)) ELSE @]
    /\ UNCHANGED <<fdt, obs>>

(* --------------------------- specification ----------------------------- *)

Next ==
    \/ \E p \in Procs : ReadLine(p) /\ UNCHANGED env
    \/ \E p \in Procs :
       /\ UNCHANGED <<unread, env>>
       /\ \/ ReadEOF(p)
          \/ LoopExit(p)
          \/ ExecuteBuiltin(p)
          \/ LaunchFork(p)
          \/ LaunchForkFail(p)
          \/ LaunchExec(p)
          \/ LaunchExecFail(p)
          \/ LaunchWait(p)
          \/ ProgExit(p)
          \/ ProgKilled(p)
          \/ ProgStop(p)
          \/ ProgCont(p)
          \/ PipeBegin(p)
          \/ PipeBeginFail(p)
          \/ PipeBeginCrash(p)
          \/ PipeFork1(p)
          \/ PipeFork1Fail(p)
          \/ PipeFork2(p)
          \/ PipeFork2Fail(p)
          \/ ConsumerExec(p)
          \/ ConsumerExecFail(p)
          \/ ProducerExec(p)
          \/ ProducerExecFail(p)
          \/ PipeWait(p)

Spec == Init /\ [][Next]_vars

(* ---------------------- vocabulary of the claims ------------------------ *)

RECURSIVE PiecesOf(_, _, _)
\* The non-empty maximal runs of characters other than '&' in a line, in
\* order: cur is the run being read, acc the runs already closed.
PiecesOf(l, cur, acc) ==
    IF l = <<>> THEN (IF cur = <<>> THEN acc ELSE Append(acc, cur))
    ELSE IF Head(l) = "&" THEN PiecesOf(Tail(l), <<>>, IF cur = <<>> THEN acc ELSE Append(acc, cur))
    ELSE PiecesOf(Tail(l), Append(cur, Head(l)), acc)

\* The '&'-delimited segments of a line.
Segments(l) == IF l = NoLine THEN <<>> ELSE PiecesOf(l, <<>>, <<>>)

HasPipeMarker(seg) == \E k \in 1..Len(seg) : seg[k] = "|"

RECURSIVE WordsOf(_, _, _)
\* The whitespace-separated words of a text.
WordsOf(t, cur, acc) ==
    IF t = <<>> THEN (IF cur = <<>> THEN acc ELSE Append(acc, cur))
    ELSE IF Head(t) \in {" ", "TAB", "CR", "LF", "BEL"}
         THEN WordsOf(Tail(t), <<>>, IF cur = <<>> THEN acc ELSE Append(acc, cur))
         ELSE WordsOf(Tail(t), Append(cur, Head(t)), acc)

Words(t) == WordsOf(t, <<>>, <<>>)

ExitWord == <<"e","x","i","t">>

BuiltinNames == { <<"c","d">>, <<"h","e","l","p">>, <<"e","x","i","t">>, <<"p","w","d">> }

\* Only whitespace (or nothing at all).
IsBlankLine(l) == l # NoLine /\ \A k \in 1..Len(l) : l[k] \in {" ", "TAB", "CR", "LF", "BEL"}

\* p has dispatched a segment of its current line and is in or after that
\* iteration of the while loop.
Dispatched(p) == proc[p].st = "code" /\ obs[p].segNo >= 1 /\ obs[p].calls # {}

\* The segment of the line that the latest iteration of p stands for.
CurrentSegment(p) == Segments(obs[p].origLine)[obs[p].segNo]

\* A process is executing msh_loop outside any launcher.
InLoop(p) == At(p, "prompt") \/ At(p, "while")

\* p is back in msh_loop from a call of msh_pipe.
ReturnedFromPipe(p) == At(p, "while") /\ obs[p].calls = {"msh_pipe"}

\* A "|" token with a command before it and a command after the last one.
WellFormedPipe(args) ==
    /\ Len(args) >= 3
    /\ args[1] # PipeToken
    /\ \E i \in 2..(Len(args) - 1) : args[i] = PipeToken
    /\ args[Len(args)] # PipeToken

(* -------------------------------- claims ------------------------------- *)

\* C1 (as claimed): a child of msh_pipe whose execlp fails terminates and
\* never returns into the REPL, so no process but the interpreter is ever
\* executing msh code past its exec: a child is before its exec, or is the
\* program it exec'd, or has terminated.
C1_OnlyShellRunsLoop ==
    \A c \in Procs \ {Shell} :
        proc[c].st = "code" => proc[c].pc \in {"launch_child", "consumer", "producer"}

\* C2 (as claimed): when pipe() fails in msh_pipe nothing is forked and
\* msh_pipe returns "continue" (status is not 0).
C2_PipeFailureContinues ==
    \A p \in Procs :
        (ReturnedFromPipe(p) /\ "pipe" \in obs[p].fails)
            => (obs[p].forks = <<>> /\ mem[p].status # 0)

\* C3 (as claimed): a segment is routed to msh_pipe if and only if its own
\* raw text contains '|'; otherwise it is routed to msh_execute.
C3_RoutedByOwnText ==
    \A p \in Procs :
        Dispatched(p) =>
            /\ ("msh_pipe" \in obs[p].calls) <=> HasPipeMarker(CurrentSegment(p))
            /\ ("msh_execute" \in obs[p].calls) <=> ~HasPipeMarker(CurrentSegment(p))

\* C4 (as claimed): a line with a segment whose sole token is exit ends the
\* interpreter: the interpreter is never back at the prompt after such a line.
C4_ExitLineEndsShell ==
    ~ ( /\ At(Shell, "prompt")
        /\ \E k \in 1..Len(Segments(obs[Shell].origLine)) :
              Words(Segments(obs[Shell].origLine)[k]) = <<ExitWord>> )

\* C5 (temporal): segments run strictly one after the other.  A process in msh_loop (at
\* the prompt or between two segments) has no child left, terminated or not,
\* and a further segment of a line is dispatched only when the one before it
\* left status at "continue".
C5_NoChildInLoop == \A p \in Procs : InLoop(p) => Children(p) = {}

C5_StrictSequence ==
    /\ [](C5_NoChildInLoop)
    /\ [][\A p \in Procs :
            (proc[p].st = "code" /\ obs'[p].segNo = obs[p].segNo + 1)
                => /\ Children(p) = {}
                   /\ obs[p].segNo >= 1 => mem[p].status = 1]_vars

\* C5 witness: the interpreter is between segments after its second
\* dispatch, which forked a child that has terminated and been reaped.
C5_Witness ==
    /\ At(Shell, "while")
    /\ obs[Shell].segNo = 2
    /\ obs[Shell].forks = <<"launched">>
    /\ Children(Shell) = {}

\* C6 (as claimed): for a well-formed pipe segment msh_pipe forks exactly
\* two children, the consumer first, and returns in the interpreter only
\* after both have terminated.
C6_AlwaysTwoChildren ==
    (ReturnedFromPipe(Shell) /\ WellFormedPipe(mem[Shell].args))
        => /\ obs[Shell].forks = <<"consumer", "producer">>
           /\ Children(Shell) = {}

\* A program exec'd by a child of msh_pipe in the given role.
PipeProgram(c, r) == proc[c].role = r /\ proc[c].st \in {"prog", "stopped", "stopseen"}

\* C6 (amended): for a well-formed pipe segment, when pipe() and both fork()
\* succeed msh_pipe forks exactly two children, the consumer first; when one
\* of them fails it forks only the children whose fork succeeded, in that
\* order.  The standard input of the consumer program is the read end of the
\* pipe whose write end is the standard output of the producer program, and
\* msh_pipe returns in the interpreter only when no child of it is left.
C6_TwoChildrenWhenForksSucceed ==
    /\ (ReturnedFromPipe(Shell) /\ WellFormedPipe(mem[Shell].args))
          => /\ Children(Shell) = {}
             /\ obs[Shell].fails = {} => obs[Shell].forks = <<"consumer", "producer">>
             /\ obs[Shell].fails # {} =>
                   obs[Shell].forks \in {<<>>, <<"consumer">>, <<"producer">>}
    /\ \A c, d \in Children(Shell) :
          (PipeProgram(c, "consumer") /\ PipeProgram(d, "producer"))
              => /\ fdt[c].stdin = ReadEnd(Shell)
                 /\ fdt[d].stdout = WriteEnd(Shell)

\* C6 witness: msh_pipe is back in the interpreter from `ls | wc` after two
\* successful forks.
C6_Witness ==
    /\ ReturnedFromPipe(Shell)
    /\ mem[Shell].args = << <<"l","s">>, PipeToken, <<"w","c">> >>
    /\ obs[Shell].fails = {}
    /\ obs[Shell].forks = <<"consumer", "producer">>

\* C7: the descriptors of the pipe.  A process in msh_loop holds neither
\* fd[0] nor fd[1], and the interpreter there holds no pipe end at all; the
\* program exec'd by the consumer holds the read end of its parent's pipe as
\* standard input and no other end of it, the program exec'd by the producer
\* holds the write end as standard output and no other end of it.
C7_PipeEndsClosed ==
    /\ \A p \in Procs : InLoop(p) => (fdt[p].fd0 = Closed /\ fdt[p].fd1 = Closed)
    /\ InLoop(Shell) => fdt[Shell] = StdFds
    /\ \A c \in Procs :
          /\ PipeProgram(c, "consumer")
                => /\ fdt[c].stdin = ReadEnd(proc[c].parent)
                   /\ fdt[c].fd0 = Closed /\ fdt[c].fd1 = Closed
                   /\ fdt[c].stdout # WriteEnd(proc[c].parent)
          /\ PipeProgram(c, "producer")
                => /\ fdt[c].stdout = WriteEnd(proc[c].parent)
                   /\ fdt[c].fd0 = Closed /\ fdt[c].fd1 = Closed
                   /\ fdt[c].stdin # ReadEnd(proc[c].parent)

\* C7 witness: both children of the interpreter's msh_pipe have exec'd and
\* the interpreter is in its first waitpid, past its two close().
C7_Witness ==
    /\ At(Shell, "pipe_wait1")
    /\ fdt[Shell].fd0 = Closed /\ fdt[Shell].fd1 = Closed
    /\ \E c, d \in Children(Shell) : PipeProgram(c, "consumer") /\ PipeProgram(d, "producer")

\* C8 (as claimed): after a line of whitespace only the interpreter forks
\* nothing and is still running.
C8_BlankLineContinues ==
    IsBlankLine(obs[Shell].origLine)
        => /\ proc[Shell].st = "code"
           /\ obs[Shell].forks = <<>>
           /\ Children(Shell) = {}

\* C9 (as claimed): msh_pipe never reads args[] at its NULL sentinel as a
\* command name, and returns 1 from a segment with no locatable partition.
C9_MalformedPipeNonFatal ==
    \A p \in Procs :
        obs[p].calls = {"msh_pipe"}
            => /\ ~obs[p].sentinel
               /\ proc[p].exit # "signal"

\* C10 (as claimed): an argument vector whose first token is a builtin name
\* reaches neither msh_launch nor msh_pipe, and nothing is forked for it.
C10_BuiltinNeverLaunched ==
    \A p \in Procs :
        (Dispatched(p) /\ mem[p].args # <<>> /\ mem[p].args[1] \in BuiltinNames)
            => /\ "msh_pipe" \notin obs[p].calls
               /\ "msh_launch" \notin obs[p].calls
               /\ obs[p].forks = <<>>

\* C10 (amended): an argument vector handed to msh_execute whose first token
\* is a builtin name reaches neither msh_launch nor msh_pipe, and nothing is
\* forked for it; a vector handed to msh_pipe is not looked up in
\* builtin_str at all.
C10_BuiltinInExecuteNeverLaunched ==
    \A p \in Procs :
        (Dispatched(p) /\ "msh_execute" \in obs[p].calls
           /\ mem[p].args # <<>> /\ mem[p].args[1] \in BuiltinNames)
            => /\ "msh_pipe" \notin obs[p].calls
               /\ "msh_launch" \notin obs[p].calls
               /\ obs[p].forks = <<>>
               /\ Children(p) = {}

\* C10 witness: the interpreter is back from msh_execute of `pwd`.
C10_Witness ==
    /\ At(Shell, "while")
    /\ mem[Shell].args = << <<"p","w","d">> >>
    /\ "msh_pwd" \in obs[Shell].calls

\* C11 (temporal): when msh_read_line meets end-of-input (a step from the
\* prompt that consumes no line) the process terminates with EXIT_SUCCESS
\* in that very step and no process is created by it; a terminated process
\* never acts again: it dispatches nothing, forks nothing and is never
\* back at the prompt.
C11_EofTerminates ==
    /\ [][\A p \in Procs :
            (At(p, "prompt") /\ unread' = unread /\ proc'[p] # proc[p])
                => /\ proc'[p].st = "zombie"
                   /\ proc'[p].exit = "EXIT_SUCCESS"
                   /\ obs'[p].calls = {} /\ obs'[p].forks = <<>>
                   /\ \A c \in Procs : proc[c].st = "free" => proc'[c].st = "free"]_vars
    /\ [][\A p \in Procs :
            proc[p].st = "zombie"
                => /\ proc'[p].st \in {"zombie", "free"}
                   /\ obs'[p] = obs[p] \/ proc'[p].st = "free"
                   /\ \A c \in Procs : proc'[c].parent = p => proc[c].parent = p]_vars

\* C11 witness: the interpreter has terminated at end-of-input that came
\* after it had read a line.
C11_Witness ==
    /\ proc[Shell].st = "zombie"
    /\ proc[Shell].exit = "EXIT_SUCCESS"
    /\ obs[Shell] = BlankObs
    /\ unread < MaxInput

(* ----------------------- msh_split_line on its own ---------------------- *)

\* Characters of the short texts: two that are no delimiters, two that are.
SplitChars == {"a", "-", " ", "TAB"}

\* n one-character tokens separated by single spaces.
ManyTokens(n) == [i \in 1..(2 * n - 1) |-> IF i % 2 = 1 THEN "a" ELSE " "]

\* The texts handed to msh_split_line: every text of at most MaxSplitLen
\* characters, a text with every delimiter, and texts with as many tokens as
\* tokens[] first holds, one fewer, one more, and twice as many.
SplitInputs ==
    UNION { [1..n -> SplitChars] : n \in 0..MaxSplitLen }
    \cup { <<" "," ","l","s"," "," "," ","-","l","TAB","/","t","m","p","LF">>,
           <<"CR","a","BEL","LF","a","CR">> }
    \cup { ManyTokens(n) : n \in { MSH_TOK_BUFSIZE - 1, MSH_TOK_BUFSIZE, MSH_TOK_BUFSIZE + 1,
                                     2 * MSH_TOK_BUFSIZE } }

\* A process in msh_split_line(line) on one of the texts, tokens[] just
\* allocated:  int bufsize = MSH_TOK_BUFSIZE, position = 0;
SplitInit ==
    /\ proc = [p \in Procs |-> IF p = Shell
                 THEN [st |-> "code", pc |-> "split", parent |-> -1, role |-> "shell", exit |-> "none"]
                 ELSE FreeProc]
    /\ \E l \in SplitInputs :
         /\ mem = [p \in Procs |-> IF p = Shell
                      THEN [BlankMem EXCEPT !.buf = l \o <<NUL>>, !.token = 1, !.save = 1,
                                            !.bufsize = MSH_TOK_BUFSIZE]
                      ELSE BlankMem]
         /\ obs = [p \in Procs |-> IF p = Shell THEN [BlankObs EXCEPT !.origLine = l] ELSE BlankObs]
    /\ fdt = [p \in Procs |-> IF p = Shell THEN StdFds ELSE NoFds]
    /\ unread = 0
    /\ env = [p \in Procs |-> StartEnv]

\* token = strtok(...) is not NULL: tokens[position] = token; position++;
\* and the check of position against bufsize.  position is Len(tokens).
SplitStore(p) ==
    /\ At(p, "split")
    /\ LET r == strtok_r(mem[p].buf, mem[p].save, MSH_TOK_DELIM) IN
       /\ r.token # 0
       /\ mem' = [mem EXCEPT ![p].buf = r.buf, ![p].save = r.save,
                              ![p].tokens = Append(@, r.token),
                              ![p].bufsize = Grow(Len(mem[p].tokens) + 1, @)]
    /\ UNCHANGED <<proc, fdt, obs, unread, env>>

\* token = strtok(...) is NULL: tokens[position] = NULL; return tokens;
SplitReturn(p) ==
    /\ At(p, "split")
    /\ LET r == strtok_r(mem[p].buf, mem[p].save, MSH_TOK_DELIM) IN
       /\ r.token = 0
       /\ mem' = [mem EXCEPT ![p].save = r.save,
                              ![p].args = [k \in 1..Len(mem[p].tokens) |-> CStr(mem[p].buf, mem[p].tokens[k])]]
    /\ proc' = [proc EXCEPT ![p].pc = "split_done"]
    /\ UNCHANGED <<fdt, obs, unread, env>>

SplitNext == \E p \in Procs : SplitStore(p) \/ SplitReturn(p)

SplitSpec == SplitInit /\ [][SplitNext]_vars

\* The maximal runs of characters of t that are no delimiter (space, tab,
\* carriage return, newline, bell), from left to right.
TokenRuns(t) ==
    LET IsDelim(i) == t[i] \in {" ", "TAB", "CR", "LF", "BEL"}
        starts == { i \in 1..Len(t) : ~IsDelim(i) /\ (i = 1 \/ IsDelim(i - 1)) }
        ends == { i \in 1..Len(t) : ~IsDelim(i) /\ (i = Len(t) \/ IsDelim(i + 1)) }
        Nth(S, k) == CHOOSE i \in S : Cardinality({ j \in S : j <= i }) = k
    IN [k \in 1..Cardinality(starts) |-> SubSeq(t, Nth(starts, k), Nth(ends, k))]

\* C12: msh_split_line returns exactly the maximal runs of non-delimiter
\* characters of its input, in order, none of them empty, for any number of
\* tokens; every store into tokens[], the one of the NULL sentinel
\* included, is inside the array as sized at that moment.  On the short
\* texts this is also what the one-step msh_split_line of Spec returns.
C12_SplitLineTokens ==
    \A p \in Procs :
        /\ (At(p, "split") \/ At(p, "split_done")) => Len(mem[p].tokens) < mem[p].bufsize
        /\ At(p, "split_done") =>
              /\ mem[p].args = TokenRuns(obs[p].origLine)
              /\ \A k \in 1..Len(mem[p].args) : mem[p].args[k] # <<>>
              /\ Len(obs[p].origLine) <= MaxSplitLen =>
                    mem[p].args = msh_split_line(obs[p].origLine \o <<NUL>>, 1).args

\* C12 witness: msh_split_line has returned more than MSH_TOK_BUFSIZE tokens.
C12_Witness ==
    /\ At(Shell, "split_done")
    /\ Len(mem[Shell].args) > MSH_TOK_BUFSIZE

(* --------------------------- cd on its own ------------------------------ *)

\* msh_cd that goes to the root directory when it has no argument
msh_cd_Home(args, cwd, ok) ==
    IF Arg(args, 1) = NullArg THEN [cwd |-> <<"/">>, err |-> <<>>, ret |-> 1]
    ELSE IF ok THEN [cwd |-> Arg(args, 1), err |-> <<>>, ret |-> 1]
    ELSE [cwd |-> cwd, err |-> <<"msh: chdir">>, ret |-> 1]

\* msh_cd(args) in a process whose working directory is cwd, ok telling
\* whether chdir(args[1]) succeeds: the working directory after it, what it
\* writes to standard error and what it returns.
msh_cd(args, cwd, ok) ==
    IF Arg(args, 1) = NullArg
    THEN [cwd |-> cwd, err |-> <<"msh: expected argument to \"cd\"">>, ret |-> 1]
    ELSE IF ok THEN [cwd |-> Arg(args, 1), err |-> <<>>, ret |-> 1]
    ELSE [cwd |-> cwd, err |-> <<"msh: chdir">>, ret |-> 1]

\* The argument vectors of cd: alone, with a directory, with a directory
\* and one more argument.
CdArgs ==
    { << <<"c","d">> >> }
    \cup { << <<"c","d">>, d >> : d \in Dirs }
    \cup { << <<"c","d">>, d, e >> : d \in Dirs, e \in Dirs }

\* A process in some directory about to call msh_execute(args) on a cd.
CdInit ==
    /\ proc = [p \in Procs |-> IF p = Shell
                 THEN [st |-> "code", pc |-> "execute", parent |-> -1, role |-> "shell", exit |-> "none"]
                 ELSE FreeProc]
    /\ \E a \in CdArgs :
         mem = [p \in Procs |-> IF p = Shell THEN [BlankMem EXCEPT !.args = a] ELSE BlankMem]
    /\ \E d \in Dirs :
         env = [p \in Procs |-> IF p = Shell THEN [StartEnv EXCEPT !.cwd = d] ELSE StartEnv]
    /\ obs = [p \in Procs |-> BlankObs]
    /\ fdt = [p \in Procs |-> IF p = Shell THEN StdFds ELSE NoFds]
    /\ unread = 0

\* status = msh_execute(args) with args[0] "cd": (*builtin_func[i])(args)
CdExecute(p) ==
    /\ At(p, "execute")
    /\ builtin_name[BuiltinIndex(mem[p].args)] = "msh_cd"
    /\ \E ok \in BOOLEAN :
         LET r == msh_cd(mem[p].args, env[p].cwd, ok) IN
         /\ env' = [env EXCEPT ![p].cwd = r.cwd, ![p].err = @ \o r.err]
         /\ mem' = [mem EXCEPT ![p].status = r.ret]
    /\ obs' = [obs EXCEPT ![p] = Iteration(@, {"msh_execute", "msh_cd"}, {})]
    /\ proc' = [proc EXCEPT ![p].pc = "executed"]
    /\ UNCHANGED <<fdt, unread>>

CdNext == \E p \in Procs : CdExecute(p)

CdSpec == CdInit /\ [][CdNext]_vars

\* C13 (temporal): a step of cd with no argument leaves the working
\* directory as it was, writes the usage message to standard error, forks
\* nothing and returns 1; a step of cd whose chdir fails (it reports the
\* failure) leaves the working directory as it was and returns 1.
C13_CdFrame ==
    [][\A p \in Procs :
         (At(p, "execute") /\ proc'[p].pc = "executed")
            => /\ Len(mem[p].args) = 1
                  => /\ env'[p].cwd = env[p].cwd
                     /\ env'[p].err = env[p].err \o <<"msh: expected argument to \"cd\"">>
                     /\ mem'[p].status = 1
               /\ env'[p].err # env[p].err
                  => /\ env'[p].cwd = env[p].cwd
                     /\ mem'[p].status = 1
               /\ \A c \in Procs \ {p} : proc'[c].st = "free"
               /\ obs'[p].forks = <<>>]_vars

\* C13 witness: cd with no argument has returned in a process whose working
\* directory is not the root.
C13_Witness ==
    /\ At(Shell, "executed")
    /\ Len(mem[Shell].args) = 1
    /\ env[Shell].cwd = <<"/","a">>
    /\ env[Shell].err # <<>>

(* ------------------- msh_pipe's strings on their own -------------------- *)

PipeWords == { <<"l","s">>, <<"w","c">>, PipeToken }

RECURSIVE JoinWords(_)
\* The words joined by single spaces.
JoinWords(ws) == IF ws = <<>> THEN <<>>
                 ELSE IF Len(ws) = 1 THEN ws[1] ELSE ws[1] \o <<" ">> \o JoinWords(Tail(ws))

\* The one-segment lines of at most MaxPipeLen words with a "|" among them.
PipeLines ==
    { JoinWords(ws) : ws \in { v \in UNION { [1..n -> PipeWords] : n \in 1..MaxPipeLen } :
                                  \E k \in 1..Len(v) : v[k] = PipeToken } }

\* A process that has read one of these lines, status 1 from an earlier line.
PipeArgsInit ==
    /\ proc = [p \in Procs |-> IF p = Shell
                 THEN [st |-> "code", pc |-> "while", parent |-> -1, role |-> "shell", exit |-> "none"]
                 ELSE FreeProc]
    /\ \E l \in PipeLines :
         /\ mem = [p \in Procs |-> IF p = Shell
                      THEN [BlankMem EXCEPT !.buf = l \o <<NUL>>, !.line = 1, !.status = 1]
                      ELSE BlankMem]
         /\ obs = [p \in Procs |-> IF p = Shell THEN [BlankObs EXCEPT !.origLine = l] ELSE BlankObs]
    /\ fdt = [p \in Procs |-> IF p = Shell THEN StdFds ELSE NoFds]
    /\ unread = 0
    /\ env = [p \in Procs |-> StartEnv]

\* msh_pipe up to and including pipe(fd)
PipeArgsNext ==
    \E p \in Procs :
        /\ UNCHANGED <<unread, env>>
        /\ \/ PipeBegin(p)
           \/ PipeBeginFail(p)
           \/ PipeBeginCrash(p)

PipeArgsSpec == PipeArgsInit /\ [][PipeArgsNext]_vars

\* The index of the last "|" of a vector.
LastPipe(args) == CHOOSE i \in 1..Len(args) :
                     args[i] = PipeToken /\ \A j \in (i + 1)..Len(args) : args[j] # PipeToken

\* A program name and, when there are more words, their space-joined string.
NameAndRest(ws) == IF Len(ws) = 1 THEN <<ws[1]>> ELSE <<ws[1], JoinWords(Tail(ws))>>

\* C14 (as claimed): for a vector with a command before its first "|" and
\* one after its last "|", the producer is exec'd as the first token plus
\* the space-joined tokens between it and the last "|", the consumer as the
\* first token after the last "|" plus the space-joined rest.
C14_PartitionAtLastPipe ==
    \A p \in Procs :
        (At(p, "pipe_fork1") /\ WellFormedPipe(mem[p].args))
            => LET args == mem[p].args
                   last == LastPipe(args) IN
               /\ ProducerArgv(mem[p]) = NameAndRest(SubSeq(args, 1, last - 1))
               /\ ConsumerArgv(mem[p]) = NameAndRest(SubSeq(args, last + 1, Len(args)))

\* C15 (as claimed): in the interpreter the k-th dispatch of a line works on
\* the tokens of the k-th non-empty '&'-delimited segment of that line.
C15_DispatchOwnTokens ==
    (Dispatched(Shell) /\ proc[Shell].pc # "prompt")
        => mem[Shell].args = Words(CurrentSegment(Shell))

(* ---------------------- the pipe and its two programs ------------------- *)

\* The consumer program reads its standard input to the end: read() on a
\* pipe reports end-of-file once no descriptor of any process is open on
\* the pipe's write end.
AtEOF(c) ==
    /\ fdt[c].stdin[1] = "r"
    /\ \A q \in Procs : \A d \in {"stdin", "stdout", "fd0", "fd1"} :
            fdt[q][d] # <<"w", fdt[c].stdin[2]>>

\* A launched program or a producer runs to its end and exits.
ProgramExit(c) == proc[c].role # "consumer" /\ ProgExit(c)

\* The consumer exits after it has read end-of-file.
ConsumerEOF(c) == proc[c].role = "consumer" /\ AtEOF(c) /\ ProgExit(c)

\* The steps of the shell and its children when every execlp of msh_pipe
\* succeeds and no signal is sent.
PipeLiveNext ==
    \/ \E p \in Procs : ReadLine(p) /\ UNCHANGED env
    \/ \E p \in Procs :
       /\ UNCHANGED <<unread, env>>
       /\ \/ ReadEOF(p)
          \/ LoopExit(p)
          \/ ExecuteBuiltin(p)
          \/ LaunchFork(p)
          \/ LaunchForkFail(p)
          \/ LaunchExec(p)
          \/ LaunchExecFail(p)
          \/ LaunchWait(p)
          \/ ProgramExit(p)
          \/ ConsumerEOF(p)
          \/ PipeBegin(p)
          \/ PipeBeginFail(p)
          \/ PipeBeginCrash(p)
          \/ PipeFork1(p)
          \/ PipeFork1Fail(p)
          \/ PipeFork2(p)
          \/ PipeFork2Fail(p)
          \/ ConsumerExec(p)
          \/ ProducerExec(p)
          \/ PipeWait(p)

\* Every process that can run does run, every program comes to its end.
PipeLiveSpec ==
    /\ Init
    /\ [][PipeLiveNext]_vars
    /\ \A p \in Procs :
          /\ WF_vars(PipeWait(p) /\ UNCHANGED <<unread, env>>)
          /\ WF_vars(ProgramExit(p) /\ UNCHANGED <<unread, env>>)
          /\ WF_vars(ConsumerEOF(p) /\ UNCHANGED <<unread, env>>)

\* c has exec'd its program: it runs it or has exited from it.
ExecOk(c) == proc[c].st = "prog" \/ (proc[c].st = "zombie" /\ proc[c].exit = "exited")

\* Both children of the interpreter's msh_pipe have exec'd.
BothExeced ==
    \E c, d \in Children(Shell) :
        /\ proc[c].role = "consumer" /\ ExecOk(c)
        /\ proc[d].role = "producer" /\ ExecOk(d)

\* C16 (temporal): the interpreter holds no end of the pipe while it waits;
\* once the producer has terminated no process holds the write end, so the
\* consumer program is at end-of-file; and once both children of msh_pipe
\* have exec'd, msh_pipe eventually returns 1 in the interpreter with both
\* children reaped.
C16_PipeReturns ==
    /\ []((At(Shell, "pipe_wait1") \/ At(Shell, "pipe_wait2"))
            => (fdt[Shell].fd0 = Closed /\ fdt[Shell].fd1 = Closed))
    /\ [](\A c \in Children(Shell) :
            ( /\ At(Shell, "pipe_wait1") \/ At(Shell, "pipe_wait2")
              /\ PipeProgram(c, "consumer")
              /\ \A d \in Children(Shell) : proc[d].role = "producer" => proc[d].st = "zombie" )
                => AtEOF(c))
    /\ BothExeced ~> (ReturnedFromPipe(Shell) /\ mem[Shell].status = 1 /\ Children(Shell) = {})

\* C16 witness: the producer has exited, the consumer program is at
\* end-of-file on the pipe and the interpreter is still in its first wait.
C16_Witness ==
    /\ At(Shell, "pipe_wait1")
    /\ \E c, d \in Children(Shell) :
          /\ PipeProgram(c, "consumer") /\ AtEOF(c)
          /\ proc[d].role = "producer" /\ proc[d].st = "zombie"

\* C17 (as claimed): msh_launch returns once waitpid has reported that the
\* child exited, was killed by a signal or was stopped by a signal: no
\* process is still inside msh_launch's wait after waitpid has reported its
\* child as stopped.
C17_ReturnsWhenStopped ==
    \A p \in Procs :
        At(p, "launch_wait") => proc[mem[p].pid].st # "stopseen"

\* C18 (as claimed): at each prompt the interpreter holds no live line
\* buffer and no live argument vector.
C18_NoLiveBuffersAtPrompt ==
    At(Shell, "prompt") => (mem[Shell].lineBufs = 0 /\ mem[Shell].argBufs = 0)

\* C19 (as claimed): status is assigned before msh_loop reads it: no
\* process stands at the loop condition, which reads status whether or not
\* there is a token, with status unassigned; and the interpreter never ends
\* from a line of which it has dispatched nothing, which it can only do on
\* what status held before any assignment.
C19_StatusAssignedBeforeRead ==
    /\ \A p \in Procs : At(p, "while") => mem[p].status # Unassigned
    /\ ~ ( /\ proc[Shell].st = "zombie"
           /\ obs[Shell].origLine # NoLine
           /\ obs[Shell].segNo = 0 )

====
